---- MODULE Spec2Model ----
(***************************************************************************)
(* Model of the trending-headline keyword pipeline of docker-hadoop-master *)
(*   segment.py  (clean_title / normalize_word / is_bad_token /            *)
(*                allow_by_pos / tokenize / main)                          *)
(*   mapper.py   (rank -> weight, one record per token)                    *)
(*   reducer.py  (fold over a stream of term<TAB>weight lines)             *)
(*   web/app.py  (parse_top20)                                             *)
(*                                                                         *)
(* A Python str is a sequence of Unicode code points (naturals): 44 is     *)
(* ",", 9 is TAB, 32 is " ", 48..57 are "0".."9", 65..90 / 97..122 are the *)
(* Latin letters, 19968..40959 (U+4E00..U+9FFF) are the CJK ideographs.    *)
(* Each program is a specification of its own over the shared variables:   *)
(* SpecMapper, SpecReducer, SpecTokenize, SpecMain, SpecTop.               *)
(***************************************************************************)
EXTENDS Integers, Sequences, FiniteSets

VARIABLES
    mLine,          \* mapper.py: the line read from stdin
    mOut,           \* mapper.py: the lines written to stdout for mLine
    mDone,          \* mapper.py: the loop body has run for mLine
    rIn,            \* reducer.py: the stdin lines consumed so far
    current_word,   \* reducer.py: <<>> is None, <<w>> is the word w
    current_sum,    \* reducer.py: running sum
    rOut,           \* reducer.py: the lines written to stdout so far
    rDone,          \* reducer.py: stdin is exhausted and the final flush ran
    tTitle,         \* tokenize: the argument title
    stop_set,       \* tokenize: the argument stop_set (load_stopwords)
    tHasPos,        \* segment.py: pseg is not None
    tCut,           \* tokenize: what the segmenter returns for the cleaned title
    pos_list,       \* tokenize: local pos_list, the kept (w, flag) pairs
    tokens,         \* tokenize: local tokens
    phrases,        \* tokenize: local phrases
    final_tokens,   \* tokenize: the returned list
    tDone,          \* tokenize has returned
    rawExists,      \* segment.py main: RAW.exists()
    rawLines,       \* segment.py main: the lines of RAW, each with the
                    \* segmenter's result for its cleaned title
    outFile,        \* segment.py main: OUT; <<>> is absent, <<t>> holds text t
    outWrites,      \* segment.py main: the number of writes to OUT
    sExit,          \* segment.py main: -1 while running, else the exit status
    topExists,      \* parse_top20: path.exists()
    topLines,       \* parse_top20: the lines of the file
    top20,          \* parse_top20: the returned list
    topDone         \* parse_top20 has returned

mapperVars == <<mLine, mOut, mDone>>
reducerVars == <<rIn, current_word, current_sum, rOut, rDone>>
tokenizeVars ==
    <<tTitle, stop_set, tHasPos, tCut, pos_list, tokens, phrases, final_tokens, tDone>>
mainVars == <<rawExists, rawLines, outFile, outWrites, sExit>>
topVars == <<topExists, topLines, top20, topDone>>
vars == <<mapperVars, reducerVars, tokenizeVars, mainVars, topVars>>

\* the variables of a program that is not the one under study
MapperIdle == mLine = <<>> /\ mOut = <<>> /\ mDone = FALSE
ReducerIdle ==
    /\ rIn = <<>> /\ current_word = <<>> /\ current_sum = 0
    /\ rOut = <<>> /\ rDone = FALSE
TokenizeIdle ==
    /\ tTitle = <<>> /\ stop_set = {} /\ tHasPos = FALSE /\ tCut = <<>>
    /\ pos_list = <<>> /\ tokens = <<>> /\ phrases = <<>>
    /\ final_tokens = <<>> /\ tDone = FALSE
MainIdle ==
    /\ rawExists = FALSE /\ rawLines = <<>> /\ outFile = <<>>
    /\ outWrites = 0 /\ sExit = -1
TopIdle ==
    /\ topExists = FALSE /\ topLines = <<>> /\ top20 = <<>> /\ topDone = FALSE

----------------------------------------------------------------------------
(* Python str primitives over code point sequences.                        *)

\* str.isspace() / the characters str.strip() and str.split() remove
IsSpace(c) == c \in {9, 10, 11, 12, 13, 28, 29, 30, 31, 32, 133, 160}

\* c is an ASCII decimal digit
IsDigitChar(c) == c \in 48..57

\* [A-Za-z]
IsLatin(c) == c \in 65..90 \/ c \in 97..122

\* [\u4e00-\u9fff]
IsCJK(c) == c \in 19968..40959

\* c in s
Contains(s, c) == \E i \in 1..Len(s) : s[i] = c

RECURSIVE LStrip(_)
LStrip(s) == IF s # <<>> /\ IsSpace(Head(s)) THEN LStrip(Tail(s)) ELSE s

RECURSIVE RStrip(_)
RStrip(s) ==
    IF s # <<>> /\ IsSpace(s[Len(s)]) THEN RStrip(SubSeq(s, 1, Len(s) - 1)) ELSE s

\* s.strip()
Strip(s) == RStrip(LStrip(s))

\* s.split(c, 1): one part when c is absent, else the text before and after
\* the first c
Split1(s, c) ==
    IF ~Contains(s, c) THEN <<s>>
    ELSE LET i == CHOOSE k \in 1..Len(s) :
                      s[k] = c /\ \A j \in 1..(k - 1) : s[j] # c
         IN  <<SubSeq(s, 1, i - 1), SubSeq(s, i + 1, Len(s))>>

\* s.split(): the maximal runs of non-whitespace characters
RECURSIVE SplitWS(_)
SplitWS(s) ==
    LET t == LStrip(s) IN
    IF t = <<>> THEN <<>>
    ELSE LET n == IF \E k \in 1..Len(t) : IsSpace(t[k])
                  THEN (CHOOSE k \in 1..Len(t) :
                            IsSpace(t[k]) /\ \A j \in 1..(k - 1) : ~IsSpace(t[j])) - 1
                  ELSE Len(t)
         IN  <<SubSeq(t, 1, n)>> \o SplitWS(SubSeq(t, n + 1, Len(t)))

\* the value of a string of decimal digits (underscores skipped)
RECURSIVE DigitsValue(_)
DigitsValue(s) ==
    IF s = <<>> THEN 0
    ELSE IF s[Len(s)] = 95 THEN DigitsValue(SubSeq(s, 1, Len(s) - 1))
    ELSE 10 * DigitsValue(SubSeq(s, 1, Len(s) - 1)) + (s[Len(s)] - 48)

\* int(s): surrounding whitespace is ignored, one optional sign, then decimal
\* digits which single underscores may separate; anything else raises
\* ValueError (ok = FALSE)
ParseInt(s) ==
    LET t == Strip(s)
        signed == t # <<>> /\ t[1] \in {43, 45}
        d == IF signed THEN Tail(t) ELSE t
        wellFormed ==
            /\ d # <<>>
            /\ \A i \in 1..Len(d) : IsDigitChar(d[i]) \/ d[i] = 95
            /\ IsDigitChar(d[1]) /\ IsDigitChar(d[Len(d)])
            /\ \A i \in 1..(Len(d) - 1) : ~(d[i] = 95 /\ d[i + 1] = 95)
    IN  IF wellFormed
        THEN [ok |-> TRUE,
              val |-> IF signed /\ t[1] = 45 THEN 0 - DigitsValue(d) ELSE DigitsValue(d)]
        ELSE [ok |-> FALSE, val |-> 0]

\* "%d" % n
RECURSIVE DecStr(_)
DecStr(n) ==
    IF n < 0 THEN <<45>> \o DecStr(0 - n)
    ELSE IF n < 10 THEN <<48 + n>>
    ELSE DecStr(n \div 10) \o <<48 + (n % 10)>>

\* "%s\t%d" % (w, n)
Record(w, n) == w \o <<9>> \o DecStr(n)

\* the k-th smallest element of a set of integers
Kth(S, k) == CHOOSE x \in S : Cardinality({y \in S : y < x}) = k - 1

RECURSIVE SumOver(_, _)
\* the sum of f[i] over i in S
SumOver(f, S) ==
    IF S = {} THEN 0
    ELSE LET x == CHOOSE y \in S : TRUE IN f[x] + SumOver(f, S \ {x})

\* all sequences over S of length 0..n
SeqsUpTo(S, n) == UNION {[1..k -> S] : k \in 0..n}

----------------------------------------------------------------------------
(* mapper.py                                                               *)

\* mutant of MapperWeight: the clamp `if weight < 1: weight = 1` is missing
MapperWeightNoClamp(rank_str) ==
    LET p == ParseInt(rank_str)
    IN  IF p.ok THEN 51 - p.val ELSE 1

\* lines 14-19: the weight of a rank field; ValueError falls back to 1
MapperWeight(rank_str) ==
    LET p == ParseInt(rank_str)
    IN  IF p.ok
        THEN (IF 51 - p.val < 1 THEN 1 ELSE 51 - p.val)
        ELSE 1

\* lines 8-24: the records written for one stdin line
MapperEmit(line) ==
    LET l == Strip(line) IN
    IF l = <<>> \/ ~Contains(l, 44) THEN <<>>
    ELSE LET parts == Split1(l, 44)
             rank_str == parts[1]
             weight == MapperWeight(rank_str)
             words_str == IF ParseInt(rank_str).ok
                          THEN parts[2]
                          ELSE Split1(l, 44)[Len(Split1(l, 44))]
             ws == SplitWS(words_str)
         IN  [i \in 1..Len(ws) |-> Record(ws[i], weight)]

\* bound: rank fields of up to this many digits (values 0..999)
MaxRankDigits == 3

\* the rank fields fed to the mapper: every digit string, each also with a
\* minus sign, and fields int() accepts or rejects for other reasons
RankFields ==
    LET digs == SeqsUpTo(48..57, MaxRankDigits) \ {<<>>}
    IN  digs \cup {<<45>> \o d : d \in digs}
             \cup { <<>>, <<120>>, <<49, 120>>, <<55, 32>>, <<43, 53>>,
                    <<49, 95, 48>>, <<45>>, <<49, 46, 53>> }

\* the token fields fed to the mapper: "", "a", "a b", "a  b ", "a,b"
WordFields ==
    { <<>>, <<97>>, <<97, 32, 98>>, <<97, 32, 32, 98, 32>>, <<97, 44, 98>> }

\* stdin lines: rank,tokens lines and lines without a comma ("", "ab", " ")
MapperLines ==
    {r \o <<44>> \o w : r \in RankFields, w \in WordFields}
        \cup { <<>>, <<97, 98>>, <<32>> }

MapperInit == mLine \in MapperLines /\ mOut = <<>> /\ mDone = FALSE

\* one iteration of `for line in sys.stdin`
MapperStep ==
    /\ ~mDone
    /\ mOut' = MapperEmit(mLine)
    /\ mDone' = TRUE
    /\ UNCHANGED <<mLine, reducerVars, tokenizeVars, mainVars, topVars>>

InitMapper == MapperInit /\ ReducerIdle /\ TokenizeIdle /\ MainIdle /\ TopIdle

SpecMapper == InitMapper /\ [][MapperStep]_vars

\* the rank field and the token field of a line holding a comma
RankOf(line) == ParseInt(Split1(Strip(line), 44)[1])
TokensOf(line) == SplitWS(Split1(Strip(line), 44)[2])

\* C1: once the mapper has processed a line whose rank field parses as an
\* integer r in 1..100, it has written exactly one record per
\* whitespace-delimited token after the first comma, in order, each with the
\* weight 51 - r when r < 50 and 1 when r >= 50 (never 0 or negative).
C1_WeightByRank ==
    (mDone /\ Contains(Strip(mLine), 44)
           /\ RankOf(mLine).ok /\ RankOf(mLine).val \in 1..100)
    => /\ Len(mOut) = Len(TokensOf(mLine))
       /\ \A i \in 1..Len(mOut) :
             mOut[i] = Record(TokensOf(mLine)[i],
                              IF RankOf(mLine).val >= 50 THEN 1
                              ELSE 51 - RankOf(mLine).val)

\* C1 witness: a line of rank 75 with two tokens has been mapped to two
\* records of weight 1
C1_Witness ==
    /\ mDone /\ Contains(Strip(mLine), 44)
    /\ RankOf(mLine).ok /\ RankOf(mLine).val = 75
    /\ mOut = <<Record(<<97>>, 1), Record(<<98>>, 1)>>

\* C4 (the claim as stated): a line holding a comma whose rank field is not
\* parseable as a positive integer (not an integer at all, empty, zero or
\* negative) yields one record of weight exactly 1 per token after the first
\* comma.
C4_FallbackWeightOne ==
    (mDone /\ Contains(Strip(mLine), 44)
           /\ ~(RankOf(mLine).ok /\ RankOf(mLine).val >= 1))
    => /\ Len(mOut) = Len(TokensOf(mLine))
       /\ \A i \in 1..Len(mOut) : mOut[i] = Record(TokensOf(mLine)[i], 1)

----------------------------------------------------------------------------
(* segment.py: constants                                                   *)

\* NORMALIZE_MAP: its keys, and the value of a key
NormalizeKeys ==
    { <<29190, 20809>>, <<23448, 23459, 20102>>, <<23448, 23459, 21862>>,
      <<39044, 21578>> }
NORMALIZE_MAP(w) ==
    CASE w = <<29190, 20809>> -> <<26333, 20809>>
      [] w = <<23448, 23459, 20102>> -> <<23448, 23459>>
      [] w = <<23448, 23459, 21862>> -> <<23448, 23459>>
      [] w = <<39044, 21578>> -> <<39044, 21578, 29255>>

BAD_WORDS ==
    { <<31881, 19997>>, <<24863, 21160>>, <<39044, 21578, 29255>>, <<22238, 25910>>,
      <<20135, 19994, 38142>>, <<25684, 20498>>, <<25151, 22411>>, <<22969, 22969>>,
      <<22969>>, <<22969, 23376>>, <<23567, 22969>>, <<20799, 23376>>,
      <<22899, 20799>>, <<32769, 20844>>, <<32769, 23110>>, <<22992, 22992>>,
      <<22992>>, <<21733, 21733>>, <<21733>>, <<22920, 22920>>,
      <<22920>>, <<29240, 29240>>, <<29240>>, <<23567>>,
      <<22823>>, <<22826>>, <<24456>>, <<30495, 30340>>,
      <<35273, 24471>>, <<22909, 20687>>, <<19968, 20010>>, <<29616, 22330>>,
      <<35270, 39057>>, <<29031, 29255>>, <<32593, 21451>>, <<28909, 25628>>,
      <<22238, 24212>>, <<26368, 26032>>, <<29190, 26009>>, <<30495, 30456>>,
      <<21407, 22240>>, <<32467, 26524>>, <<36827, 23637>>, <<21518, 32493>>,
      <<29916>>, <<22969, 23567>> }

\* KINSHIP_RE.search(w): w holds one of twelve kinship characters or one of
\* four two-character kinship words
KINSHIP_RE(w) ==
    \/ \E i \in 1..Len(w) :
          w[i] \in { 22969, 22992, 21733, 24351, 23234, 23016,
                     21460, 33285, 29240, 22920, 29241, 23064 }
    \/ \E i \in 1..(Len(w) - 1) :
          <<w[i], w[i + 1]>> \in { <<20799, 23376>>, <<22899, 20799>>,
                                   <<32769, 20844>>, <<32769, 23110>> }

\* "n", "v"
ALLOW_POS_PREFIX == {110, 118}

\* "nr", "ns", "nt", "nz"
ALLOW_POS_EXACT == { <<110, 114>>, <<110, 115>>, <<110, 116>>, <<110, 122>> }

BAD_COMPONENT ==
    { <<22969>>, <<23567>>, <<22992>>, <<21733>>, <<20799, 23376>>,
      <<22899, 20799>>, <<31881, 19997>> }

----------------------------------------------------------------------------
(* segment.py: clean_title, normalize_word, is_bad_token, allow_by_pos      *)

\* [\u4e00-\u9fffA-Za-z0-9]: the characters clean_title keeps
IsKept(c) == IsCJK(c) \/ IsLatin(c) \/ IsDigitChar(c)

RECURSIVE SkipDropped(_)
SkipDropped(s) == IF s # <<>> /\ ~IsKept(Head(s)) THEN SkipDropped(Tail(s)) ELSE s

\* re.sub(r"[^\u4e00-\u9fffA-Za-z0-9]+", " ", s)
RECURSIVE SubDropped(_)
SubDropped(s) ==
    IF s = <<>> THEN <<>>
    ELSE IF IsKept(Head(s)) THEN <<Head(s)>> \o SubDropped(Tail(s))
    ELSE <<32>> \o SubDropped(SkipDropped(s))

\* re.sub(r"\s+", " ", s)
RECURSIVE SubSpaces(_)
SubSpaces(s) ==
    IF s = <<>> THEN <<>>
    ELSE IF ~IsSpace(Head(s)) THEN <<Head(s)>> \o SubSpaces(Tail(s))
    ELSE <<32>> \o SubSpaces(LStrip(s))

clean_title(s) == Strip(SubSpaces(SubDropped(s)))

\* re.fullmatch(r"[A-Za-z]+", w)
AllLatin(w) == w # <<>> /\ \A i \in 1..Len(w) : IsLatin(w[i])

\* w.upper() on Latin letters
Upper(w) == [i \in 1..Len(w) |-> IF w[i] \in 97..122 THEN w[i] - 32 ELSE w[i]]

normalize_word(w0) ==
    LET w == Strip(w0) IN
    IF w = <<>> THEN <<>>
    ELSE LET u == IF AllLatin(w) THEN Upper(w) ELSE w
         IN  IF u \in NormalizeKeys THEN NORMALIZE_MAP(u) ELSE u

\* w.isdigit() for the characters a cleaned title can hold
IsDigit(w) == w # <<>> /\ \A i \in 1..Len(w) : IsDigitChar(w[i])

is_bad_token(w, stop) ==
    \/ w = <<>>
    \/ w \in stop
    \/ w \in BAD_WORDS
    \/ IsDigit(w)
    \/ (AllLatin(w) /\ Len(w) < 2)
    \/ ((\E i \in 1..Len(w) : IsCJK(w[i])) /\ (Len(w) < 2 \/ Len(w) > 10))
    \/ (KINSHIP_RE(w) /\ Len(w) <= 4)

allow_by_pos(flag) ==
    IF flag = <<>> THEN FALSE
    ELSE IF flag \in ALLOW_POS_EXACT THEN TRUE
    ELSE flag[1] \in ALLOW_POS_PREFIX

----------------------------------------------------------------------------
(* segment.py: tokenize                                                    *)

\* lines 154-172: the kept (w, flag) pairs of a segmenter result; with pseg
\* the flag gate and the token filter, without it the token filter alone and
\* an empty flag
RECURSIVE FilterCut(_, _, _)
FilterCut(cut, hasPos, stop) ==
    IF cut = <<>> THEN <<>>
    ELSE LET w == normalize_word(Head(cut).w)
             rest == FilterCut(Tail(cut), hasPos, stop)
         IN  IF hasPos
             THEN (IF w = <<>> \/ ~allow_by_pos(Head(cut).flag) \/ is_bad_token(w, stop)
                   THEN rest
                   ELSE <<[w |-> w, flag |-> Head(cut).flag]>> \o rest)
             ELSE (IF is_bad_token(w, stop)
                   THEN rest
                   ELSE <<[w |-> w, flag |-> <<>>]>> \o rest)

\* lines 188-189: a flag that may take part in a phrase
NounLike(f) == f \in ALLOW_POS_EXACT \/ (f # <<>> /\ f[1] = 110) \/ f = <<>>

\* mutant of PhraseLenOK: the phrase bound is the single-token bound 10
PhraseLenUpTo10(phrase) == ~(Len(phrase) < 2 \/ Len(phrase) > 10)

\* line 200: the length a merged phrase must have
PhraseLenOK(phrase) == ~(Len(phrase) < 2 \/ Len(phrase) > 8)

\* lines 178-201: the pair at positions i, i+1 of pos is merged
PairMerges(pos, i, stop) ==
    LET w1 == pos[i].w
        w2 == pos[i + 1].w
        phrase == normalize_word(w1 \o w2)
    IN  /\ ~(w1 \in BAD_COMPONENT \/ w2 \in BAD_COMPONENT)
        /\ ~(KINSHIP_RE(w1) \/ KINSHIP_RE(w2))
        /\ NounLike(pos[i].flag) /\ NounLike(pos[i + 1].flag)
        /\ ~is_bad_token(phrase, stop)
        /\ PhraseLenOK(phrase)

\* lines 176-203: the loop over the adjacent pairs from position i on
RECURSIVE PhrasesFrom(_, _, _)
PhrasesFrom(pos, i, stop) ==
    IF i > Len(pos) - 1 THEN <<>>
    ELSE IF PairMerges(pos, i, stop)
    THEN <<normalize_word(pos[i].w \o pos[i + 1].w)>> \o PhrasesFrom(pos, i + 1, stop)
    ELSE PhrasesFrom(pos, i + 1, stop)

\* mutant of Merge: the single tokens are put first
MergeTokensFirst(phr, toks) == toks \o phr

\* line 206: merged = phrases + tokens
Merge(phr, toks) == phr \o toks

\* lines 209-214: the loop that keeps the first occurrence of each text
RECURSIVE Dedup(_, _)
Dedup(merged, seen) ==
    IF merged = <<>> THEN <<>>
    ELSE IF Head(merged) \notin seen
    THEN <<Head(merged)>> \o Dedup(Tail(merged), seen \cup {Head(merged)})
    ELSE Dedup(Tail(merged), seen)

\* mutant of Truncate: the list is returned whole
TruncateNothing(ws) == ws

\* line 217: final_tokens[:40]
Truncate(ws) == SubSeq(ws, 1, IF Len(ws) < 40 THEN Len(ws) ELSE 40)

\* lines 141-217: the locals of tokenize at its return; cut is what the
\* segmenter returns for the cleaned title
tokenize(title, stop, hasPos, cut) ==
    IF clean_title(title) = <<>>
    THEN [pos_list |-> <<>>, tokens |-> <<>>, phrases |-> <<>>, final |-> <<>>]
    ELSE LET pos == FilterCut(cut, hasPos, stop)
             toks == [i \in 1..Len(pos) |-> pos[i].w]
             phr == PhrasesFrom(pos, 1, stop)
         IN  [pos_list |-> pos, tokens |-> toks, phrases |-> phr,
              final |-> Truncate(Dedup(Merge(phr, toks), {}))]

\* bound: the length of the segmenter results built freely from CoreWords
MaxCut == 3

\* bound: the length of the long segmenter results
MaxLong == 22

\* the part-of-speech flags the segmenter attaches: "", "n", "nr", "v", "a"
Flags == { <<>>, <<110>>, <<110, 114>>, <<118>>, <<97>> }

\* words the segmenter returns: a two- and a four-ideograph word (the second
\* is the first twice), "ab", and the space between two parts of a title
CoreWords ==
    { <<20013, 22269>>, <<20013, 22269, 20013, 22269>>, <<97, 98>>, <<32>> }

\* further words, one per rule of the filter: a NORMALIZE_MAP key, a
\* five-ideograph word with a kinship character, a five-, a six- and an
\* eleven-ideograph word, "a", "12", a BAD_WORDS entry, a NORMALIZE_MAP key
\* whose value is in BAD_WORDS, a stop word, "abcdefg"
ProbeWords ==
    CoreWords \cup
    { <<29190, 20809>>,
      <<22969, 20013, 22269, 20013, 22269>>,
      <<21326, 20026, 25163, 26426, 21457>>,
      <<21326, 20026, 25163, 26426, 21457, 24067>>,
      <<19968, 20108, 19977, 22235, 20116, 20845, 19971, 20843, 20061, 21313, 30334>>,
      <<97>>, <<49, 50>>, <<22969>>, <<39044, 21578>>, <<25105, 20204>>,
      <<97, 98, 99, 100, 101, 102, 103>> }

\* the k-th word of a long title: two ideographs, different for each k
LongWord(k) == <<19968 + 2 * k, 19969 + 2 * k>>

Pairs(W, F) == {[w |-> x, flag |-> f] : x \in W, f \in F}

\* the segmenter results tokenize is run on when flags come from F: every
\* sequence of up to MaxCut core pairs, every one or two probe pairs, and
\* every n <= MaxLong words of which the first m are distinct and then repeat
Cuts(F) ==
    SeqsUpTo(Pairs(CoreWords, F \ {<<110, 114>>}), MaxCut)
    \cup {<<p>> : p \in Pairs(ProbeWords, F)}
    \cup {<<p, q>> : p, q \in Pairs(ProbeWords, F)}
    \cup { [i \in 1..n |-> [w |-> LongWord(i % m), flag |-> f]] :
              n \in 1..MaxLong, m \in 1..MaxLong, f \in F \cap {<<>>, <<110>>} }

RECURSIVE Concat(_)
\* the text the words of a segmenter result spell
Concat(cut) == IF cut = <<>> THEN <<>> ELSE Head(cut).w \o Concat(Tail(cut))

\* the titles a text is the cleaned form of: itself, and "#" text "!"
TitlesOf(c) == {t \in {c, <<35>> \o c \o <<33>>} : clean_title(t) = c}

\* the segmenter splits the cleaned title, so its words spell it; without
\* pseg, jieba.lcut returns words only (flag "")
TokenizeInit ==
    /\ tHasPos \in BOOLEAN
    /\ tCut \in Cuts(IF tHasPos THEN Flags ELSE {<<>>})
    /\ tTitle \in TitlesOf(Concat(tCut))
    /\ stop_set \in { {}, {<<25105, 20204>>} }
    /\ pos_list = <<>> /\ tokens = <<>> /\ phrases = <<>>
    /\ final_tokens = <<>> /\ tDone = FALSE

\* a call of tokenize(title, stop_set)
TokenizeCall ==
    /\ ~tDone
    /\ LET r == tokenize(tTitle, stop_set, tHasPos, tCut)
       IN  /\ pos_list' = r.pos_list
           /\ tokens' = r.tokens
           /\ phrases' = r.phrases
           /\ final_tokens' = r.final
    /\ tDone' = TRUE
    /\ UNCHANGED <<tTitle, stop_set, tHasPos, tCut, mapperVars, reducerVars,
                   mainVars, topVars>>

InitTokenize == TokenizeInit /\ MapperIdle /\ ReducerIdle /\ MainIdle /\ TopIdle

SpecTokenize == InitTokenize /\ [][TokenizeCall]_vars

\* the set of entries of a sequence
Range(f) == {f[i] : i \in 1..Len(f)}

\* C3 (the claim as stated): a segmenter token that passes the lexical rules
\* 1-5 and carries an empty posTag is kept as a single token, with pseg and
\* without it.
C3_EmptyTagAllowed ==
    tDone =>
        \A i \in 1..Len(tCut) :
            LET w == normalize_word(tCut[i].w) IN
            (tCut[i].flag = <<>> /\ ~is_bad_token(w, stop_set)) => w \in Range(tokens)

\* C5: the list tokenize returns has at most 40 entries and no two entries
\* with the same text.
C5_CapAndDistinct ==
    tDone => /\ Len(final_tokens) <= 40
             /\ \A i, j \in 1..Len(final_tokens) :
                   final_tokens[i] = final_tokens[j] => i = j

\* C5 witness: a title with more than 40 distinct phrases and tokens was
\* tokenized to exactly 40 entries, and one with a repeated token was too
C5_Witness ==
    /\ tDone
    /\ Cardinality(Range(phrases) \cup Range(tokens)) > 40
    /\ Len(final_tokens) = 40
    /\ \E i, j \in 1..Len(tokens) : i # j /\ tokens[i] = tokens[j]

\* the positions of merged that hold the first occurrence of their text
FirstOccurrences(merged) ==
    {i \in 1..Len(merged) : \A j \in 1..(i - 1) : merged[j] # merged[i]}

\* the positions of pos_list that start a merged pair
MergedAt == {i \in 1..(Len(pos_list) - 1) : PairMerges(pos_list, i, stop_set)}

\* C6: the returned list is the first 40 entries of the first-occurrence
\* deduplication of the phrases followed by the single tokens, the phrases
\* being those of the merged pairs in order of the pair's starting position
\* and the tokens the kept tokens in order; so no entry that is only a single
\* token precedes an entry that is a phrase.
C6_PhrasesFirst ==
    tDone =>
        LET merged == phrases \o tokens
            firsts == FirstOccurrences(merged)
            n == IF Cardinality(firsts) < 40 THEN Cardinality(firsts) ELSE 40
        IN  /\ Len(phrases) = Cardinality(MergedAt)
            /\ \A k \in 1..Len(phrases) :
                  phrases[k] = normalize_word(pos_list[Kth(MergedAt, k)].w
                                              \o pos_list[Kth(MergedAt, k) + 1].w)
            /\ tokens = [i \in 1..Len(pos_list) |-> pos_list[i].w]
            /\ Len(final_tokens) = n
            /\ \A k \in 1..n : final_tokens[k] = merged[Kth(firsts, k)]
            /\ \A a, b \in 1..n :
                  (final_tokens[a] \notin Range(phrases)
                     /\ final_tokens[b] \in Range(phrases)) => b < a

\* C6 witness: two phrases were merged, the first of them is also a single
\* token, and the returned list holds both phrases and then a text that is
\* only a single token
C6_Witness ==
    /\ tDone
    /\ Len(phrases) >= 2
    /\ phrases[1] # phrases[2]
    /\ phrases[1] \in Range(tokens)
    /\ Len(final_tokens) >= 3
    /\ final_tokens[1] = phrases[1] /\ final_tokens[2] = phrases[2]
    /\ final_tokens[3] \notin Range(phrases)

\* C8: every returned entry that is a merged phrase has 2 to 8 characters,
\* every returned single token holding an ideograph has 2 to 10, and every
\* returned single token of Latin letters only has at least 2.
C8_LengthBounds ==
    tDone =>
        \A k \in 1..Len(final_tokens) :
            LET e == final_tokens[k] IN
            /\ e \in Range(phrases) => (Len(e) >= 2 /\ Len(e) <= 8)
            /\ (e \in Range(tokens) /\ \E i \in 1..Len(e) : IsCJK(e[i]))
                  => (Len(e) >= 2 /\ Len(e) <= 10)
            /\ (e \in Range(tokens) /\ AllLatin(e)) => Len(e) >= 2

\* C8 witness: a phrase of 8 characters was returned, from a title in which a
\* single token of Latin letters was kept too
C8_Witness ==
    /\ tDone
    /\ \E k \in 1..Len(final_tokens) :
          final_tokens[k] \in Range(phrases) /\ Len(final_tokens[k]) = 8
    /\ \E k \in 1..Len(final_tokens) :
          final_tokens[k] \in Range(tokens) /\ AllLatin(final_tokens[k])

----------------------------------------------------------------------------
(* segment.py: main                                                        *)

RECURSIVE JoinWith(_, _)
\* sep.join(parts)
JoinWith(parts, sep) ==
    IF parts = <<>> THEN <<>>
    ELSE IF Len(parts) = 1 THEN parts[1]
    ELSE parts[1] \o <<sep>> \o JoinWith(Tail(parts), sep)

\* lines 232-246: the output line of one input line l = [text, cut], as
\* <<line>>, or <<>> when the line is skipped or yields no token
SegmentLine(l, stop, hasPos) ==
    LET line == Strip(l.text) IN
    IF line = <<>> \/ ~Contains(line, 44) THEN <<>>
    ELSE LET rank_str == Strip(Split1(line, 44)[1])
             title == Strip(Split1(line, 44)[2])
         IN  IF ~IsDigit(rank_str) THEN <<>>
             ELSE LET toks == tokenize(title, stop, hasPos, l.cut).final
                  IN  IF toks = <<>> THEN <<>>
                      ELSE <<rank_str \o <<44>> \o JoinWith(toks, 32)>>

\* lines 229-246: out_lines after the loop over the lines
RECURSIVE SegmentOutLines(_, _, _)
SegmentOutLines(lines, stop, hasPos) ==
    IF lines = <<>> THEN <<>>
    ELSE SegmentLine(Head(lines), stop, hasPos)
            \o SegmentOutLines(Tail(lines), stop, hasPos)

\* mutant of SegmentRun: OUT is written before out_lines is tested
SegmentRunWriteFirst(exists, lines, stop, hasPos, file, writes) ==
    IF ~exists THEN [exit |-> 1, file |-> file, writes |-> writes]
    ELSE LET out_lines == SegmentOutLines(lines, stop, hasPos)
         IN  [exit |-> IF out_lines = <<>> THEN 1 ELSE 0,
              file |-> <<JoinWith(out_lines, 10)>>,
              writes |-> writes + 1]

\* lines 220-253: the exit status of main and OUT after it
SegmentRun(exists, lines, stop, hasPos, file, writes) ==
    IF ~exists THEN [exit |-> 1, file |-> file, writes |-> writes]
    ELSE LET out_lines == SegmentOutLines(lines, stop, hasPos)
         IN  IF out_lines = <<>>
             THEN [exit |-> 1, file |-> file, writes |-> writes]
             ELSE [exit |-> 0, file |-> <<JoinWith(out_lines, 10)>>,
                   writes |-> writes + 1]

\* bound: the number of lines of news_raw.txt
MaxRawLines == 3

\* lines of news_raw.txt with the segmenter's result for the cleaned title:
\* "", "ab" (no comma), "x,<zhong guo>" and "-1,<zhong guo>" (rank not
\* digits), "1,#!" (nothing left after cleaning), "2,<mei>" (filtered to no
\* token), "3,<zhong guo>ab", " 4 , <zhong guo> "
RawSamples ==
    { [text |-> <<>>, cut |-> <<>>],
      [text |-> <<97, 98>>, cut |-> <<>>],
      [text |-> <<120, 44, 20013, 22269>>,
       cut |-> <<[w |-> <<20013, 22269>>, flag |-> <<110, 115>>]>>],
      [text |-> <<45, 49, 44, 20013, 22269>>,
       cut |-> <<[w |-> <<20013, 22269>>, flag |-> <<110, 115>>]>>],
      [text |-> <<49, 44, 35, 33>>, cut |-> <<>>],
      [text |-> <<50, 44, 22969>>,
       cut |-> <<[w |-> <<22969>>, flag |-> <<110>>]>>],
      [text |-> <<51, 44, 20013, 22269, 97, 98>>,
       cut |-> <<[w |-> <<20013, 22269>>, flag |-> <<110, 115>>],
                 [w |-> <<97, 98>>, flag |-> <<101, 110, 103>>]>>],
      [text |-> <<32, 52, 32, 44, 32, 20013, 22269, 32>>,
       cut |-> <<[w |-> <<20013, 22269>>, flag |-> <<110, 115>>]>>] }

\* what an earlier run left in news_seg.txt: "1,ab"
OldSeg == <<49, 44, 97, 98>>

MainInit ==
    /\ rawExists \in BOOLEAN
    /\ rawLines \in (IF rawExists THEN SeqsUpTo(RawSamples, MaxRawLines) ELSE {<<>>})
    /\ tHasPos \in BOOLEAN
    /\ stop_set \in { {}, {<<25105, 20204>>} }
    /\ outFile \in {<<>>, <<OldSeg>>}
    /\ outWrites = 0
    /\ sExit = -1
    /\ tTitle = <<>> /\ tCut = <<>>
    /\ pos_list = <<>> /\ tokens = <<>> /\ phrases = <<>>
    /\ final_tokens = <<>> /\ tDone = FALSE

\* a run of main()
SegmentMain ==
    /\ sExit = -1
    /\ LET r == SegmentRun(rawExists, rawLines, stop_set, tHasPos, outFile, outWrites)
       IN  /\ sExit' = r.exit
           /\ outFile' = r.file
           /\ outWrites' = r.writes
    /\ UNCHANGED <<rawExists, rawLines, tokenizeVars, mapperVars, reducerVars,
                   topVars>>

InitMain == MainInit /\ MapperIdle /\ ReducerIdle /\ TopIdle

SpecMain == InitMain /\ [][SegmentMain]_vars

\* the input line is skipped: blank, without a comma, or its rank is not
\* made of digits
Skipped(l) ==
    \/ Strip(l.text) = <<>>
    \/ ~Contains(Strip(l.text), 44)
    \/ ~IsDigit(Strip(Split1(Strip(l.text), 44)[1]))

\* the tokens of the title of a line that is not skipped
TitleTokens(l) ==
    tokenize(Strip(Split1(Strip(l.text), 44)[2]), stop_set, tHasPos, l.cut).final

\* the positions of the lines that are read and yield a token
Usable == {i \in 1..Len(rawLines) : ~Skipped(rawLines[i]) /\ TitleTokens(rawLines[i]) # <<>>}

\* C7: when RAW is absent, or every line is skipped or yields no token, main
\* ends with status 1 and has not written OUT, which is absent or holds the
\* complete text it held before; otherwise main ends with status 0 and OUT
\* holds one line for each line that yields a token and none for the others.
C7_NoPartialWrite ==
    sExit # -1 =>
        /\ (~rawExists \/ Usable = {})
              => /\ sExit = 1
                 /\ outWrites = 0
                 /\ outFile \in {<<>>, <<OldSeg>>}
        /\ (rawExists /\ Usable # {})
              => /\ sExit = 0
                 /\ outFile =
                      << JoinWith([k \in 1..Cardinality(Usable) |->
                                     LET l == rawLines[Kth(Usable, k)] IN
                                     Strip(Split1(Strip(l.text), 44)[1]) \o <<44>>
                                        \o JoinWith(TitleTokens(l), 32)], 10) >>

\* C7 witness: a batch of a pure-punctuation title and a title filtered to no
\* token has failed and left the earlier news_seg.txt as it was
C7_Witness ==
    /\ sExit = 1
    /\ rawExists
    /\ Len(rawLines) = 2
    /\ rawLines[1].text = <<49, 44, 35, 33>>
    /\ rawLines[2].text = <<50, 44, 22969>>
    /\ outFile = <<OldSeg>>

----------------------------------------------------------------------------
(* reducer.py                                                              *)

\* lines 9-21: what one stdin line parses to; ok = FALSE is `continue`
ReducerParse(l) ==
    LET line == Strip(l)
        parts == Split1(line, 9)
    IN  IF line = <<>> \/ Len(parts) # 2
        THEN [ok |-> FALSE, word |-> <<>>, cnt |-> 0]
        ELSE [ok |-> ParseInt(parts[2]).ok,
              word |-> parts[1],
              cnt |-> ParseInt(parts[2]).val]

\* mutant of ReducerFold: the new word's sum starts from the old sum
ReducerFoldKeepSum(acc, l) ==
    LET r == ReducerParse(l) IN
    IF ~r.ok THEN acc
    ELSE IF acc.word = <<r.word>>
    THEN [acc EXCEPT !.sum = acc.sum + r.cnt]
    ELSE [word |-> <<r.word>>,
          sum |-> acc.sum + r.cnt,
          out |-> IF acc.word # <<>>
                  THEN Append(acc.out, Record(acc.word[1], acc.sum))
                  ELSE acc.out]

\* lines 8-29: one iteration of the loop on the accumulator
\* acc = [word, sum, out]
ReducerFold(acc, l) ==
    LET r == ReducerParse(l) IN
    IF ~r.ok THEN acc
    ELSE IF acc.word = <<r.word>>
    THEN [acc EXCEPT !.sum = acc.sum + r.cnt]
    ELSE [word |-> <<r.word>>,
          sum |-> r.cnt,
          out |-> IF acc.word # <<>>
                  THEN Append(acc.out, Record(acc.word[1], acc.sum))
                  ELSE acc.out]

\* mutant of ReducerFlush: the last accumulator is never written
ReducerFlushNothing(acc) == acc.out

\* lines 31-32: the flush after the loop
ReducerFlush(acc) ==
    IF acc.word # <<>>
    THEN Append(acc.out, Record(acc.word[1], acc.sum))
    ELSE acc.out

\* bound: the number of stdin lines of a reducer run
MaxStream == 4

\* stdin lines: "a\t1", "a\t2", "b\t1", "b\t-3", " a\t1 " and the lines the
\* reducer skips: "", "a", "b\tx"
ReducerLines ==
    { <<97, 9, 49>>, <<97, 9, 50>>, <<98, 9, 49>>, <<98, 9, 45, 51>>,
      <<32, 97, 9, 49, 32>>,
      <<>>, <<97>>, <<98, 9, 120>> }

\* one iteration of `for line in sys.stdin`
ReduceLine ==
    /\ ~rDone
    /\ Len(rIn) < MaxStream
    /\ \E l \in ReducerLines :
          LET acc == ReducerFold([word |-> current_word, sum |-> current_sum,
                                  out |-> rOut], l)
          IN  /\ rIn' = Append(rIn, l)
              /\ current_word' = acc.word
              /\ current_sum' = acc.sum
              /\ rOut' = acc.out
    /\ UNCHANGED <<rDone, mapperVars, tokenizeVars, mainVars, topVars>>

\* end of stdin
ReduceEnd ==
    /\ ~rDone
    /\ rOut' = ReducerFlush([word |-> current_word, sum |-> current_sum,
                             out |-> rOut])
    /\ rDone' = TRUE
    /\ UNCHANGED <<rIn, current_word, current_sum, mapperVars, tokenizeVars,
                   mainVars, topVars>>

ReducerNext == ReduceLine \/ ReduceEnd

InitReducer == ReducerIdle /\ MapperIdle /\ TokenizeIdle /\ MainIdle /\ TopIdle

SpecReducer == InitReducer /\ [][ReducerNext]_vars

\* the positions of the lines that are records, in order
RecordPositions(lines) == {i \in 1..Len(lines) : ReducerParse(lines[i]).ok}

\* the records among the lines, in order
RecordsOf(lines) ==
    [k \in 1..Cardinality(RecordPositions(lines)) |->
        ReducerParse(lines[Kth(RecordPositions(lines), k)])]

\* recs is grouped by term: between two records of a term lie only records
\* of that term
Grouped(recs) ==
    \A i, j, k \in 1..Len(recs) :
        (i < j /\ j < k /\ recs[i].word = recs[k].word)
            => recs[j].word = recs[i].word

\* C2: when stdin held only term<TAB>weight records, grouped by term, then
\* after the end of stdin the output holds exactly one line per distinct
\* term, in order of the terms' first appearance, and each line's total is
\* the sum of all weights of its term; the last term is flushed too and an
\* empty stream writes nothing.
C2_GroupedSums ==
    LET recs == RecordsOf(rIn)
        firsts == {i \in 1..Len(recs) :
                      \A j \in 1..(i - 1) : recs[j].word # recs[i].word}
    IN  (rDone /\ Len(recs) = Len(rIn) /\ Grouped(recs))
        => /\ Len(rOut) = Cardinality(firsts)
           /\ \A k \in 1..Len(rOut) :
                 LET w == recs[Kth(firsts, k)].word
                 IN  rOut[k] =
                        Record(w, SumOver([i \in 1..Len(recs) |-> recs[i].cnt],
                                          {i \in 1..Len(recs) : recs[i].word = w}))

\* C2 witness: the grouped stream a 1, a 2, b 1 has been reduced to a 3, b 1
C2_Witness ==
    /\ rDone
    /\ rIn = << <<97, 9, 49>>, <<97, 9, 50>>, <<98, 9, 49>> >>
    /\ rOut = << <<97, 9, 51>>, <<98, 9, 49>> >>

\* the first positions of the maximal runs of equal terms in recs
RunStarts(recs) ==
    {i \in 1..Len(recs) : i = 1 \/ recs[i].word # recs[i - 1].word}

\* the positions of the run that starts at s
RunAt(recs, s) ==
    {i \in s..Len(recs) : \A j \in s..i : recs[j].word = recs[s].word}

\* the output line of the run that starts at s
RunLine(recs, s) ==
    Record(recs[s].word,
           SumOver([i \in 1..Len(recs) |-> recs[i].cnt], RunAt(recs, s)))

\* C10: for any stream, grouped or not, the reducer state depends on the
\* records among the lines only (a skipped line changes nothing): the
\* accumulator holds the term and the sum of the last maximal run of equal
\* terms, the output holds one line per earlier run with that run's sum, and
\* after the end of stdin the output holds one line per run (a term of k
\* separated runs is written k times) whose totals add up to the sum of all
\* record weights.
C10_RunSums ==
    LET recs == RecordsOf(rIn)
        starts == RunStarts(recs)
        n == Cardinality(starts)
        cnts == [i \in 1..Len(recs) |-> recs[i].cnt]
    IN  /\ current_word = IF recs = <<>> THEN <<>> ELSE <<recs[Len(recs)].word>>
        /\ recs # <<>> => current_sum = SumOver(cnts, RunAt(recs, Kth(starts, n)))
        /\ ~rDone => /\ Len(rOut) = IF n = 0 THEN 0 ELSE n - 1
                     /\ \A k \in 1..Len(rOut) : rOut[k] = RunLine(recs, Kth(starts, k))
        /\ rDone => /\ Len(rOut) = n
                    /\ \A k \in 1..n : rOut[k] = RunLine(recs, Kth(starts, k))
                    /\ \A k \in 1..n : ReducerParse(rOut[k]).ok
                    /\ SumOver([k \in 1..n |-> ReducerParse(rOut[k]).cnt], 1..n)
                         = SumOver(cnts, 1..Len(recs))

\* C10 witness: the ungrouped stream a 1, (skipped) "a", b 1, a 2 has been
\* reduced to the fragmented lines a 1, b 1, a 2
C10_Witness ==
    /\ rDone
    /\ rIn = << <<97, 9, 49>>, <<97>>, <<98, 9, 49>>, <<97, 9, 50>> >>
    /\ rOut = << <<97, 9, 49>>, <<98, 9, 49>>, <<97, 9, 50>> >>

----------------------------------------------------------------------------
(* web/app.py: parse_top20                                                 *)

\* lines 63-70: what one line parses to; ok = FALSE is `continue`
TopParse(line) ==
    IF ~Contains(line, 9) THEN [ok |-> FALSE, word |-> <<>>, count |-> 0]
    ELSE [ok |-> ParseInt(Split1(line, 9)[2]).ok,
          word |-> Split1(line, 9)[1],
          count |-> ParseInt(Split1(line, 9)[2]).val]

\* lines 61-70: data after the loop over the lines
RECURSIVE TopData(_)
TopData(lines) ==
    IF lines = <<>> THEN <<>>
    ELSE LET r == TopParse(Head(lines)) IN
         IF r.ok THEN <<[word |-> r.word, count |-> r.count]>> \o TopData(Tail(lines))
         ELSE TopData(Tail(lines))

\* e put into the descending list sorted, behind every entry whose count is
\* not smaller
RECURSIVE InsertDesc(_, _)
InsertDesc(sorted, e) ==
    IF sorted = <<>> THEN <<e>>
    ELSE IF Head(sorted).count >= e.count
    THEN <<Head(sorted)>> \o InsertDesc(Tail(sorted), e)
    ELSE <<e>> \o sorted

\* data.sort(key=count, reverse=True): stable, entries of equal count keep
\* their order
RECURSIVE SortDesc(_)
SortDesc(data) ==
    IF data = <<>> THEN <<>>
    ELSE InsertDesc(SortDesc(SubSeq(data, 1, Len(data) - 1)), data[Len(data)])

\* data[:20]
First20(data) == SubSeq(data, 1, IF Len(data) < 20 THEN Len(data) ELSE 20)

\* mutant of parse_top20: the list is cut to 20 before it is sorted
parse_top20_CutFirst(exists, lines) ==
    IF ~exists THEN <<>> ELSE SortDesc(First20(TopData(lines)))

\* lines 57-72
parse_top20(exists, lines) ==
    IF ~exists THEN <<>> ELSE First20(SortDesc(TopData(lines)))

\* bound: the length of the files built freely from TopSamples
MaxTopLines == 3

\* bound: the length of the long files
MaxTopLong == 22

\* lines of top20.txt: "a\t1", "b\t2", "c\t2", "\t5", "d\t 3 " and the lines
\* parse_top20 skips: "a", "a\tx"
TopSamples ==
    { <<97, 9, 49>>, <<98, 9, 50>>, <<99, 9, 50>>, <<9, 53>>,
      <<100, 9, 32, 51, 32>>, <<97>>, <<97, 9, 120>> }

\* the count of line i of a long file under pattern p: rising, falling,
\* with ties, constant
PatternCount(p, i) ==
    CASE p = 1 -> i
      [] p = 2 -> 0 - i
      [] p = 3 -> (i * 3) % 7
      [] p = 4 -> 5

\* a long file: n lines of distinct terms, after a line without a TAB when
\* junk holds
LongTop(n, p, junk) ==
    (IF junk THEN << <<120>> >> ELSE <<>>)
        \o [i \in 1..n |-> Record(<<96 + i>>, PatternCount(p, i))]

TopFiles ==
    SeqsUpTo(TopSamples, MaxTopLines)
        \cup {LongTop(n, p, j) : n \in 0..MaxTopLong, p \in 1..4, j \in BOOLEAN}

TopInit ==
    /\ topExists \in BOOLEAN
    /\ topLines \in (IF topExists THEN TopFiles ELSE {<<>>})
    /\ top20 = <<>>
    /\ topDone = FALSE

\* a call of parse_top20(path)
TopCall ==
    /\ ~topDone
    /\ top20' = parse_top20(topExists, topLines)
    /\ topDone' = TRUE
    /\ UNCHANGED <<topExists, topLines, mapperVars, reducerVars, tokenizeVars,
                   mainVars>>

InitTop == TopInit /\ MapperIdle /\ ReducerIdle /\ TokenizeIdle /\ MainIdle

SpecTop == InitTop /\ [][TopCall]_vars

\* the positions of the lines of the file that parse
TopParseable == {i \in 1..Len(topLines) : TopParse(topLines[i]).ok}

\* the entry line i parses to
TopEntry(i) == [word |-> TopParse(topLines[i]).word, count |-> TopParse(topLines[i]).count]

\* how often entry e is among the parsed lines, and in the returned list
InFile(e) == Cardinality({i \in TopParseable : TopEntry(i) = e})
InTop(e) == Cardinality({k \in 1..Len(top20) : top20[k] = e})

\* C9: parse_top20 returns min(20, number of parseable lines) entries, each
\* an entry of the file (no more often than the file holds it), in
\* non-increasing order of count, and every returned entry's count is at
\* least the count of every parseable entry left out; a missing file gives
\* the empty list.
C9_TopTwenty ==
    topDone =>
        /\ ~topExists => top20 = <<>>
        /\ topExists =>
              /\ Len(top20) = IF Cardinality(TopParseable) < 20
                              THEN Cardinality(TopParseable) ELSE 20
              /\ \A k \in 1..(Len(top20) - 1) : top20[k].count >= top20[k + 1].count
              /\ \A k \in 1..Len(top20) : InTop(top20[k]) <= InFile(top20[k])
              /\ \A i \in TopParseable :
                    InTop(TopEntry(i)) < InFile(TopEntry(i))
                       => \A k \in 1..Len(top20) : top20[k].count >= TopEntry(i).count

\* C9 witness: a file of more than 20 parseable lines with rising counts was
\* cut to the 20 largest, the largest first
C9_Witness ==
    /\ topDone /\ topExists
    /\ Cardinality(TopParseable) > 20
    /\ Len(top20) = 20
    /\ top20[1].count > top20[20].count
    /\ TopEntry(Kth(TopParseable, 1)).count < top20[20].count

====
